---- MODULE Spec2Model ----
(***************************************************************************)
(* Model of the public-API rotation of script.js: the module state         *)
(* currentAPIIndex / lastHealthyAPI, chooseAPI (probe fan-out over the     *)
(* mirrors, Promise.all, cache write) and apiFetchJSON (try / catch with   *)
(* one rotate-and-retry).  Lookups are started by the two UI handlers and  *)
(* run as JavaScript async functions: one action per run-to-completion     *)
(* step between two awaits.                                                *)
(***************************************************************************)
EXTENDS Integers, Sequences, FiniteSets, TLC

\* ---------------------------------------------------------------- bounds
\* number of configured mirrors taken from the head of the mirror list
NumMirrors == 2
\* longest list of stream descriptors handed to the selectors
MaxLen == 3

\* ------------------------------------------------------------- constants
AllMirrors == << "kavin", "adminforge", "syncpundit", "nosebs", "tokhmi" >>
PIPED_APIS == SubSeq(AllMirrors, 1, NumMirrors)
Len_APIS == Len(PIPED_APIS)
null == "null"
Mirrors == {PIPED_APIS[i] : i \in 1..Len_APIS}

\* the two UI handlers that start lookups (debounced input, paste timer)
Procs == {"input", "paste"}

\* HTTP statuses a request can settle with; Rejected: the fetch promise rejects
Rejected == 0
Statuses == {Rejected, 200, 404, 500}

VARIABLES
  currentAPIIndex,  \* let currentAPIIndex
  lastHealthyAPI,   \* let lastHealthyAPI
  pc,               \* per lookup: position in apiFetchJSON / chooseAPI
  attempt,          \* per lookup: 1 in the try block, 2 in the catch block
  start,            \* per lookup: currentAPIIndex read when the probes were issued
  results,          \* per lookup: the attempts array, in issue order
  ret,              \* per lookup: what chooseAPI returned (a base) or threw
  base,             \* per lookup: base of the real request in flight / last issued
  err,              \* per lookup: error apiFetchJSON rejected with
  nReq,             \* per call: real data requests issued
  nRes,             \* per call: chooseAPI invocations
  nInval,           \* per call: executions of the invalidation statements
  nProbe,           \* per chooseAPI invocation: HEAD probes issued
  first,            \* per batch: base of the probe that settled healthy first
  inflight,         \* lookups whose probe batch is in flight, oldest batch first
  stale,            \* lookups whose in-flight batch is older than the batch
                    \* that wrote the current content of lastHealthyAPI
  inputValue,       \* input.value, as the parts of the text (see RawTexts)
  vid,              \* per lookup: the videoId loadInfo was called with
  endpoint,         \* per lookup: the endpoint parameter of its chooseAPI calls
  titleShown,       \* video whose metadata titleEl / byEl / durEl / thumb show
  actionsWired,     \* video whose streams mp4Link.href and mp3Btn.onclick serve
  previewHidden,    \* preview.hidden
  streams,          \* the array handed to pickBestMp4 / pickBestAudio
  picked,           \* what the selector returned
  rawText,          \* the text handed to getVideoId
  videoId,          \* what getVideoId returned
  called            \* which of the three functions has been called

apiVars == << currentAPIIndex, lastHealthyAPI, pc, attempt, start, results, ret,
              base, err, nReq, nRes, nInval, nProbe, first, inflight, stale >>
uiVars == << inputValue, vid, endpoint, titleShown, actionsWired,
             previewHidden >>
selVars == << streams, picked, rawText, videoId, called >>
vars == << apiVars, uiVars, selVars >>

\* ------------------------------------------------------- pure operators
\* r.ok
Ok(status) == status >= 200 /\ status <= 299

\* PIPED_APIS[(currentAPIIndex + i) % PIPED_APIS.length], i from 0
BaseAt(st, i) == PIPED_APIS[((st + i) % Len_APIS) + 1]

\* .then((r) => (r.ok || r.status === 404 ? base : null)).catch(() => null)
ProbeResultOkOnly(b, status) ==
  IF status = Rejected THEN null
  ELSE IF Ok(status) THEN b ELSE null
ProbeResult(b, status) ==
  IF status = Rejected THEN null
  ELSE IF Ok(status) \/ status = 404 THEN b ELSE null

\* results.find(Boolean): first truthy entry in array order, else undefined
FindOrDefault(rs) ==
  IF \E i \in 1..Len(rs) : rs[i] # null
  THEN rs[CHOOSE i \in 1..Len(rs) :
            rs[i] # null /\ \A j \in 1..(i-1) : rs[j] = null]
  ELSE PIPED_APIS[1]
Find(rs) ==
  IF \E i \in 1..Len(rs) : rs[i] # null
  THEN rs[CHOOSE i \in 1..Len(rs) :
            rs[i] # null /\ \A j \in 1..(i-1) : rs[j] = null]
  ELSE null

\* PIPED_APIS.indexOf(x): first index, -1 when absent
IndexOfOneBased(x) ==
  IF \E i \in 1..Len_APIS : PIPED_APIS[i] = x
  THEN CHOOSE i \in 1..Len_APIS : PIPED_APIS[i] = x
  ELSE -1
IndexOf(x) ==
  IF \E i \in 1..Len_APIS : PIPED_APIS[i] = x
  THEN (CHOOSE i \in 1..Len_APIS :
            PIPED_APIS[i] = x /\ \A j \in 1..(i-1) : PIPED_APIS[j] # x) - 1
  ELSE -1

\* if (lastHealthyAPI) return lastHealthyAPI;
CacheHitNever(cache) == FALSE
CacheHit(cache) == cache # null

\* currentAPIIndex = (currentAPIIndex + 1) % PIPED_APIS.length
RotateNoWrap(idx) == idx + 1
RotateStay(idx) == idx
Rotate(idx) == (idx + 1) % Len_APIS

\* the try block is left through catch, the catch block is left by throwing
RetriesAgain(att) == att <= 2
Retries(att) == att = 1

\* new Error("All public API instances seem offline or blocked.")
ProbeError == "All public API instances seem offline or blocked."

\* what the request lines throw: the fetch rejection, new Error(`API error
\* ${r.status}`) on a non-ok status, or the rejection of r.json()
RequestErrorAsProbe(status, json) == ProbeError
RequestError(status, json) ==
  IF status = Rejected THEN "TypeError: Failed to fetch"
  ELSE IF ~Ok(status) THEN "API error"
  ELSE "SyntaxError: bad JSON"

Pending == [i \in 1..Len_APIS |-> "pending"]
NoResults == << >>

\* ------------------------------------------------------------ getVideoId
\* A pasted text is kept as its parts: the text is
\* lead \o scheme \o host \o route \o id.
\* str.includes(sub)
Includes(str, sub) ==
  \E i \in 1..(Len(str) - Len(sub) + 1) : SubSeq(str, i, i + Len(sub) - 1) = sub

\* new URL(url): throws unless the text is an absolute URL
UrlParses(t) == t.lead = "" /\ t.scheme # ""
\* u.hostname, u.pathname, u.searchParams.get("v") of a text that parses
Hostname(t) == t.host
Pathname(t) == IF t.route = "/watch?v=" THEN "/watch" ELSE t.route \o t.id
SearchV(t) == IF t.route = "/watch?v=" THEN t.id ELSE null
\* str.slice(1)
Slice1(str) == SubSeq(str, 2, Len(str))
\* a value an if () or a || treats as false
Falsy(x) == x = null \/ x = ""

\* url.match(YT_RE): m[3], or null when the expression does not match
\* https?:\/\/(www\.)?(youtube\.com\/watch\?v=|youtu\.be\/)([A-Za-z0-9_\-]{6,})
MatchYT(t) ==
  IF /\ t.scheme \in {"https://", "http://"}
     /\ \/ t.host \in {"www.youtube.com", "youtube.com"} /\ t.route = "/watch?v="
        \/ t.host = "youtu.be" /\ t.route = "/"
     /\ Len(t.id) >= 6
  THEN t.id ELSE null

\* function getVideoId(url), lines 83-93
getVideoId(t) ==
  IF ~UrlParses(t) THEN null
  ELSE IF Includes(Hostname(t), "youtu.be") THEN Slice1(Pathname(t))
  ELSE IF ~Falsy(SearchV(t)) THEN SearchV(t)
  ELSE MatchYT(t)

\* the two links the user pastes one after the other
TextA == [lead |-> "", scheme |-> "https://", host |-> "youtu.be",
          route |-> "/", id |-> "dQw4w9WgXcQ"]
TextB == [lead |-> "", scheme |-> "https://", host |-> "www.youtube.com",
          route |-> "/watch?v=", id |-> "jNQXAC9IVRw"]

\* `/api/v1/streams/${videoId}`, line 161
DataPath(id) == "/api/v1/streams/" \o id
\* async function chooseAPI(endpoint = "/api/v1/trending"), line 21
undefined == "undefined"
DefaultEndpoint == "/api/v1/trending"
EndpointParam(arg) == IF arg = undefined THEN DefaultEndpoint ELSE arg

\* ------------------------------------------------------------- selectors
\* A stream descriptor; a number is carried in its string form, a missing
\* field is null.  The lists hold only digit-led quality and bitrate values.
NoStream == [container |-> null, mimeType |-> null, quality |-> null,
             bitrate |-> null, url |-> null]
Urls == [i \in 1..(MaxLen + 1) |-> "stream" \o ToString(i)]

Digits == << "0", "1", "2", "3", "4", "5", "6", "7", "8", "9" >>
IsDigit(c) == \E d \in 1..10 : Digits[d] = c
DigitVal(c) == (CHOOSE d \in 1..10 : Digits[d] = c) - 1
\* parseInt(x): the number written by the leading digits of String(x)
RECURSIVE ParseDigits(_, _, _)
ParseDigits(str, i, acc) ==
  IF i > Len(str) \/ ~IsDigit(SubSeq(str, i, i)) THEN acc
  ELSE ParseDigits(str, i + 1, acc * 10 + DigitVal(SubSeq(str, i, i)))
ParseInt(str) == ParseDigits(str, 1, 0)

\* /mp4/i.test(str)
TestMp4CaseSensitive(str) ==
  \E i \in 1..(Len(str) - 2) : SubSeq(str, i, i + 2) = "mp4"
TestMp4(str) ==
  \E i \in 1..(Len(str) - 2) :
    /\ SubSeq(str, i, i) \in {"m", "M"}
    /\ SubSeq(str, i + 1, i + 1) \in {"p", "P"}
    /\ SubSeq(str, i + 2, i + 2) = "4"

\* s.container || s.mimeType || ""
Hint(d) ==
  IF ~Falsy(d.container) THEN d.container
  ELSE IF ~Falsy(d.mimeType) THEN d.mimeType ELSE ""

\* parseInt(s.quality ?? 0) and parseInt(s.bitrate || 0)
QualityKey(d) == ParseInt(IF d.quality = null THEN "0" ELSE d.quality)
BitrateKey(d) ==
  ParseInt(IF Falsy(d.bitrate) \/ d.bitrate = "0" THEN "0" ELSE d.bitrate)

\* arr.sort((a, b) => key(b) - key(a)): descending by key, equal keys keep
\* their order (the sort is stable); keys[i] is the key of arr[i]
SortDescTiesReversed(arr, keys) ==
  LET Rank(i) == Cardinality({j \in 1..Len(arr) :
                    keys[j] > keys[i] \/ (keys[j] = keys[i] /\ j > i)}) + 1
  IN  [r \in 1..Len(arr) |-> arr[CHOOSE i \in 1..Len(arr) : Rank(i) = r]]
StableSortDesc(arr, keys) ==
  LET Rank(i) == Cardinality({j \in 1..Len(arr) :
                    keys[j] > keys[i] \/ (keys[j] = keys[i] /\ j < i)}) + 1
  IN  [r \in 1..Len(arr) |-> arr[CHOOSE i \in 1..Len(arr) : Rank(i) = r]]

\* function pickBestMp4(muxed), lines 126-131
pickBestMp4(muxed) ==
  LET matching == SelectSeq(muxed, LAMBDA d : TestMp4(Hint(d)))
      candidates == StableSortDesc(matching,
                      [i \in 1..Len(matching) |-> QualityKey(matching[i])])
  IN  IF Len(candidates) > 0 THEN candidates[1]
      ELSE IF Len(muxed) > 0 THEN muxed[1] ELSE NoStream

\* function pickBestAudio(audios), lines 132-134
pickBestAudio(audios) ==
  LET sorted == StableSortDesc(audios,
                  [i \in 1..Len(audios) |-> BitrateKey(audios[i])])
  IN  IF Len(sorted) > 0 THEN sorted[1] ELSE NoStream

\* the lists the selectors are tried on: stream i carries the url Urls[i]
MuxedAttrs == [container : {null, "MP4", "webm"},
               mimeType : {null, "video/mp4"},
               quality : {null, "0", "720p", "1080"}]
AudioAttrs == [mimeType : {"audio/webm", "audio/mp4"},
               bitrate : {null, "0", "128", "256"}]
MuxedList(f) ==
  [i \in DOMAIN f |-> [container |-> f[i].container,
                       mimeType |-> f[i].mimeType, quality |-> f[i].quality,
                       bitrate |-> null, url |-> Urls[i]]]
AudioList(f) ==
  [i \in DOMAIN f |-> [container |-> null, mimeType |-> f[i].mimeType,
                       quality |-> null, bitrate |-> f[i].bitrate,
                       url |-> Urls[i]]]

\* the texts getVideoId is tried on
RawTexts == [lead : {"", "watch "}, scheme : {"", "https://"},
             host : {"www.youtube.com", "youtu.be", "example.com"},
             route : {"/watch?v=", "/", "/embed/"},
             id : {"", "abc", "dQw4w9WgXcQ"}]

\* ----------------------------------------------------------------- Init
\* the page after load, with the first link in the input box
UiInit ==
  /\ inputValue = TextA
  /\ vid = [p \in Procs |-> null]
  /\ endpoint = [p \in Procs |-> null]
  /\ titleShown = null
  /\ actionsWired = null
  /\ previewHidden = TRUE

ApiInit ==
  /\ currentAPIIndex = 0
  /\ lastHealthyAPI = null
  /\ pc = [p \in Procs |-> "idle"]
  /\ attempt = [p \in Procs |-> 0]
  /\ start = [p \in Procs |-> 0]
  /\ results = [p \in Procs |-> NoResults]
  /\ ret = [p \in Procs |-> null]
  /\ base = [p \in Procs |-> null]
  /\ err = [p \in Procs |-> null]
  /\ nReq = [p \in Procs |-> 0]
  /\ nRes = [p \in Procs |-> 0]
  /\ nInval = [p \in Procs |-> 0]
  /\ nProbe = [p \in Procs |-> 0]
  /\ first = [p \in Procs |-> null]
  /\ inflight = << >>
  /\ stale = {}

\* none of the helper functions called on its own
SelInit ==
  /\ streams = << >>
  /\ picked = NoStream
  /\ rawText = TextA
  /\ videoId = null
  /\ called = "none"

Init == ApiInit /\ UiInit /\ SelInit


\* ------------------------------------------------------------- actions
Without(seq, p) == SelectSeq(seq, LAMBDA q : q # p)
Before(seq, p) ==
  {seq[i] : i \in {i \in 1..Len(seq) : \E j \in (i+1)..Len(seq) : seq[j] = p}}

\* chooseAPI up to its first await, entered with cache content c and cursor k
\* (lines 21-34): a hit returns the cached base, a miss issues one HEAD probe
\* per mirror in rotation order and waits for all of them.
ChooseEnter(p, c, k, n) ==
  /\ nRes' = [nRes EXCEPT ![p] = n]
  /\ IF CacheHit(c)
     THEN /\ ret' = [ret EXCEPT ![p] = c]
          /\ pc' = [pc EXCEPT ![p] = "resolved"]
          /\ nProbe' = [nProbe EXCEPT ![p] = 0]
          /\ UNCHANGED << start, results, first, inflight >>
     ELSE /\ ret' = [ret EXCEPT ![p] = null]
          /\ pc' = [pc EXCEPT ![p] = "probing"]
          /\ start' = [start EXCEPT ![p] = k]
          /\ results' = [results EXCEPT ![p] = Pending]
          /\ nProbe' = [nProbe EXCEPT ![p] = Len_APIS]
          /\ first' = [first EXCEPT ![p] = null]
          /\ inflight' = Append(inflight, p)

\* apiFetchJSON(path) is called by a handler (line 161 via 140 / 147) and runs
\* to the await of line 45.  A handler has at most one lookup in flight.
Start(p) ==
  /\ pc[p] = "idle"
  /\ attempt' = [attempt EXCEPT ![p] = 1]
  /\ base' = [base EXCEPT ![p] = null]
  /\ err' = [err EXCEPT ![p] = null]
  /\ nReq' = [nReq EXCEPT ![p] = 0]
  /\ nInval' = [nInval EXCEPT ![p] = 0]
  /\ ChooseEnter(p, lastHealthyAPI, currentAPIIndex, 1)
  /\ UNCHANGED << currentAPIIndex, lastHealthyAPI, stale >>

\* one probe of the batch settles with a status or rejects (lines 29-31)
Settle(p, i, status) ==
  /\ pc[p] = "probing"
  /\ results[p][i] = "pending"
  /\ LET r == ProbeResult(BaseAt(start[p], i - 1), status) IN
       /\ results' = [results EXCEPT ![p][i] = r]
       /\ first' = [first EXCEPT ![p] = IF @ = null THEN r ELSE @]
  /\ UNCHANGED << currentAPIIndex, lastHealthyAPI, pc, attempt, start, ret,
                  base, err, nReq, nRes, nInval, nProbe, inflight, stale >>

\* Promise.all has resolved: the rest of chooseAPI (lines 34-39)
Gather(p) ==
  /\ pc[p] = "probing"
  /\ \A i \in 1..Len_APIS : results[p][i] # "pending"
  /\ LET healthy == Find(results[p]) IN
       IF healthy = null
       THEN /\ ret' = [ret EXCEPT ![p] = ProbeError]
            /\ stale' = stale \ {p}
            /\ UNCHANGED << lastHealthyAPI, currentAPIIndex >>
       ELSE /\ lastHealthyAPI' = healthy
            /\ currentAPIIndex' = IndexOf(healthy)
            /\ ret' = [ret EXCEPT ![p] = healthy]
            /\ stale' = Before(inflight, p)
  /\ pc' = [pc EXCEPT ![p] = "resolved"]
  /\ results' = [results EXCEPT ![p] = NoResults]
  /\ start' = [start EXCEPT ![p] = 0]
  /\ inflight' = Without(inflight, p)
  /\ UNCHANGED << attempt, base, err, nReq, nRes, nInval, nProbe, first >>

\* the catch block up to its first await (lines 49-53); the try block's
\* const base is out of scope here
CatchBlock(p) ==
  /\ lastHealthyAPI' = null
  /\ currentAPIIndex' = Rotate(currentAPIIndex)
  /\ nInval' = [nInval EXCEPT ![p] = @ + 1]
  /\ attempt' = [attempt EXCEPT ![p] = @ + 1]
  /\ base' = [base EXCEPT ![p] = null]
  /\ stale' = {}
  /\ ChooseEnter(p, lastHealthyAPI', currentAPIIndex', nRes[p] + 1)

\* apiFetchJSON leaves the block it is in by throwing (out of the catch block)
Throw(p, e) ==
  /\ pc' = [pc EXCEPT ![p] = "failed"]
  /\ err' = [err EXCEPT ![p] = e]
  /\ ret' = [ret EXCEPT ![p] = null]
  /\ first' = [first EXCEPT ![p] = null]
  /\ UNCHANGED << currentAPIIndex, lastHealthyAPI, attempt, start, results,
                  nRes, nInval, nProbe, inflight, stale >>

\* await chooseAPI(path) completes: line 45 -> 46, or line 53 -> 54
Resume(p) ==
  /\ pc[p] = "resolved"
  /\ IF ret[p] = ProbeError
     THEN IF Retries(attempt[p])
          THEN CatchBlock(p) /\ UNCHANGED << err, nReq >>
          ELSE Throw(p, ret[p]) /\ UNCHANGED << base, nReq >>
     ELSE /\ base' = [base EXCEPT ![p] = ret[p]]
          /\ nReq' = [nReq EXCEPT ![p] = @ + 1]
          /\ pc' = [pc EXCEPT ![p] = "fetching"]
          /\ ret' = [ret EXCEPT ![p] = null]
          /\ first' = [first EXCEPT ![p] = null]
          /\ UNCHANGED << currentAPIIndex, lastHealthyAPI, attempt, start,
                          results, err, nRes, nInval, nProbe, inflight, stale >>

\* the real request settles and the body is parsed (lines 46-48, 54-56)
Response(p, status, json) ==
  /\ pc[p] = "fetching"
  /\ IF status # Rejected /\ Ok(status) /\ json
     THEN /\ pc' = [pc EXCEPT ![p] = "done"]
          /\ UNCHANGED << currentAPIIndex, lastHealthyAPI, attempt, start,
                          results, ret, base, err, nReq, nRes, nInval, nProbe,
                          first, inflight, stale >>
     ELSE IF Retries(attempt[p])
          THEN CatchBlock(p) /\ UNCHANGED << err, nReq >>
          ELSE Throw(p, RequestError(status, json)) /\ UNCHANGED << base, nReq >>

\* a handler's timer fires (lines 137-141, 144-149): loadInfo(id) runs to the
\* await of line 161, apiFetchJSON to the await of line 45
LoadInfo(p) ==
  LET id == getVideoId(inputValue) IN
    /\ ~Falsy(id)
    /\ Start(p)
    /\ vid' = [vid EXCEPT ![p] = id]
    /\ endpoint' = [endpoint EXCEPT ![p] = EndpointParam(DataPath(id))]
    /\ UNCHANGED << inputValue, titleShown, actionsWired, previewHidden >>
    /\ UNCHANGED selVars

\* the rest of loadInfo once apiFetchJSON has settled: lines 163-195 on
\* success, the catch of lines 196-200 on failure
Render(p) ==
  /\ pc[p] \in {"done", "failed"}
  /\ IF pc[p] = "done"
     THEN /\ titleShown' = vid[p]
          /\ actionsWired' = vid[p]
          /\ previewHidden' = FALSE
     ELSE /\ previewHidden' = TRUE
          /\ UNCHANGED << titleShown, actionsWired >>
  /\ pc' = [pc EXCEPT ![p] = "idle"]
  /\ vid' = [vid EXCEPT ![p] = null]
  /\ endpoint' = [endpoint EXCEPT ![p] = null]
  /\ attempt' = [attempt EXCEPT ![p] = 0]
  /\ base' = [base EXCEPT ![p] = null]
  /\ err' = [err EXCEPT ![p] = null]
  /\ nReq' = [nReq EXCEPT ![p] = 0]
  /\ nRes' = [nRes EXCEPT ![p] = 0]
  /\ nInval' = [nInval EXCEPT ![p] = 0]
  /\ nProbe' = [nProbe EXCEPT ![p] = 0]
  /\ UNCHANGED << currentAPIIndex, lastHealthyAPI, start, results, ret, first,
                  inflight, stale, inputValue, selVars >>

\* the user replaces the first link in the input box by the second
Edit ==
  /\ inputValue = TextA
  /\ inputValue' = TextB
  /\ UNCHANGED << apiVars, vid, endpoint, titleShown, actionsWired,
                  previewHidden, selVars >>

Next ==
  \/ \E p \in Procs : LoadInfo(p)
  \/ \E p \in Procs, i \in 1..Len_APIS, s \in Statuses :
        Settle(p, i, s) /\ UNCHANGED << uiVars, selVars >>
  \/ \E p \in Procs : Gather(p) /\ UNCHANGED << uiVars, selVars >>
  \/ \E p \in Procs : Resume(p) /\ UNCHANGED << uiVars, selVars >>
  \/ \E p \in Procs, s \in Statuses, j \in BOOLEAN :
        Response(p, s, j) /\ UNCHANGED << uiVars, selVars >>
  \/ \E p \in Procs : Render(p)

Spec == Init /\ [][Next]_vars

\* the same with the user editing the input box between lookups
NextUI == Next \/ Edit
SpecUI == Init /\ [][NextUI]_vars

\* ---------------------------------------- the helper functions on their own
CallPickBestMp4 ==
  /\ called = "none"
  /\ called' = "pickBestMp4"
  /\ picked' = pickBestMp4(streams)
  /\ UNCHANGED << apiVars, uiVars, streams, rawText, videoId >>
InitMp4 ==
  /\ ApiInit /\ UiInit
  /\ \E n \in 0..MaxLen : \E f \in [1..n -> MuxedAttrs] :
       streams = MuxedList(f)
  /\ picked = NoStream /\ rawText = TextA /\ videoId = null /\ called = "none"
SpecMp4 == InitMp4 /\ [][CallPickBestMp4]_vars

\* the sort runs on the spread copy, the caller's array is left as it was
CallPickBestAudio ==
  /\ called = "none"
  /\ called' = "pickBestAudio"
  /\ picked' = pickBestAudio(streams)
  /\ UNCHANGED << apiVars, uiVars, streams, rawText, videoId >>
InitAudio ==
  /\ ApiInit /\ UiInit
  /\ \E n \in 0..MaxLen : \E f \in [1..n -> AudioAttrs] :
       streams = AudioList(f)
  /\ picked = NoStream /\ rawText = TextA /\ videoId = null /\ called = "none"
SpecAudio == InitAudio /\ [][CallPickBestAudio]_vars

CallGetVideoId ==
  /\ called = "none"
  /\ called' = "getVideoId"
  /\ videoId' = getVideoId(rawText)
  /\ UNCHANGED << apiVars, uiVars, streams, picked, rawText >>
InitId ==
  /\ ApiInit /\ UiInit
  /\ rawText \in RawTexts
  /\ streams = << >> /\ picked = NoStream /\ videoId = null /\ called = "none"
SpecId == InitId /\ [][CallGetVideoId]_vars

\* one lookup at a time: a handler fires only when no lookup is in flight
NextSeq ==
  \/ \E p \in Procs : LoadInfo(p) /\ \A q \in Procs : pc[q] = "idle"
  \/ \E p \in Procs, i \in 1..Len_APIS, s \in Statuses :
        Settle(p, i, s) /\ UNCHANGED << uiVars, selVars >>
  \/ \E p \in Procs : Gather(p) /\ UNCHANGED << uiVars, selVars >>
  \/ \E p \in Procs : Resume(p) /\ UNCHANGED << uiVars, selVars >>
  \/ \E p \in Procs, s \in Statuses, j \in BOOLEAN :
        Response(p, s, j) /\ UNCHANGED << uiVars, selVars >>
  \/ \E p \in Procs : Render(p)
SpecSeq == Init /\ [][NextSeq]_vars

\* Scheduling: a continuation whose promise has settled is run, every real
\* request settles, and every probe settles except those sent to one mirror,
\* which may stay pending for ever (fetch has no timeout, line 29).
HangingMirror == PIPED_APIS[1]
Fairness ==
  \A p \in Procs :
    /\ WF_vars(Gather(p) /\ UNCHANGED << uiVars, selVars >>)
    /\ WF_vars(Resume(p) /\ UNCHANGED << uiVars, selVars >>)
    /\ WF_vars(\E s \in Statuses, j \in BOOLEAN :
                 Response(p, s, j) /\ UNCHANGED << uiVars, selVars >>)
    /\ WF_vars(Render(p))
    /\ \A i \in 1..Len_APIS :
         WF_vars(\E s \in Statuses :
                   /\ BaseAt(start[p], i - 1) # HangingMirror
                   /\ Settle(p, i, s) /\ UNCHANGED << uiVars, selVars >>)
SpecHang == Init /\ [][Next]_vars /\ Fairness

\* ---------------------------------------------------------------- claims
InCall(p) == pc[p] \in {"probing", "resolved", "fetching"}
Failing(status, json) == status = Rejected \/ ~Ok(status) \/ ~json
\* the request itself failed: transport error or non-success status
RequestFailed(status) == status = Rejected \/ ~Ok(status)
UpstreamRequestFailed == {"API error", "TypeError: Failed to fetch"}
AllEndpointsUnreachable == "All public API instances seem offline or blocked."

\* C1: in every call of apiFetchJSON at most two real requests are issued, at
\* most two endpoint resolutions are run and the invalidation step runs at most
\* once; a second attempt that fails (in its resolution or in its request)
\* ends the call with that failure, without another request or resolution.
C1_AtMostTwoAttempts ==
  /\ [](\A p \in Procs : nReq[p] <= 2 /\ nRes[p] <= 2 /\ nInval[p] <= 1)
  /\ [][\A p \in Procs :
          /\ \A s \in Statuses, j \in BOOLEAN :
               (Response(p, s, j) /\ attempt[p] = 2 /\ Failing(s, j)) =>
                 /\ pc'[p] = "failed" /\ err'[p] # null
                 /\ nReq'[p] = nReq[p] /\ nRes'[p] = nRes[p]
                 /\ nInval'[p] = nInval[p]
          /\ (Resume(p) /\ attempt[p] = 2 /\ ret[p] \notin Mirrors) =>
                 /\ pc'[p] = "failed" /\ err'[p] = ret[p]
                 /\ nReq'[p] = nReq[p] /\ nRes'[p] = nRes[p]
                 /\ nInval'[p] = nInval[p]]_vars

\* a call whose two requests both failed has ended in failure
C1_Witness ==
  \E p \in Procs :
    pc[p] = "failed" /\ nReq[p] = 2 /\ nRes[p] = 2 /\ nInval[p] = 1

\* C2: whenever a real request issued through the currently cached endpoint
\* fails, in the first attempt or in the retry, the step that handles the
\* failure leaves lastHealthyAPI null.
C2_FailedRequestClearsCache ==
  [][\A p \in Procs :
       (pc[p] = "fetching" /\ pc'[p] \notin {"fetching", "done"}
          /\ lastHealthyAPI = base[p]) => lastHealthyAPI' = null]_vars

\* C3: a chooseAPI call entered while the cache holds an endpoint returns that
\* endpoint, issues no probe and leaves the cache and the cursor unchanged.
C3_CacheHitNoProbe ==
  [][\A p \in Procs :
       (~InCall(p) /\ InCall(p)' /\ lastHealthyAPI # null) =>
          /\ ret'[p] = lastHealthyAPI
          /\ nProbe'[p] = 0
          /\ pc'[p] = "resolved"
          /\ results'[p] = results[p]
          /\ lastHealthyAPI' = lastHealthyAPI
          /\ currentAPIIndex' = currentAPIIndex]_vars

\* a resolution answered from the cache
C3_Witness ==
  \E p \in Procs :
    /\ pc[p] = "resolved" /\ attempt[p] = 1 /\ nRes[p] = 1 /\ nProbe[p] = 0
    /\ ret[p] \in Mirrors /\ ret[p] = lastHealthyAPI

\* C4: a resolution that probed and found a healthy mirror returns the mirror
\* whose probe settled healthy first.
C4_FirstSettledHealthyWins ==
  \A p \in Procs :
    (pc[p] = "resolved" /\ nProbe[p] > 0 /\ ret[p] \in Mirrors) =>
       ret[p] = first[p]

\* C5: a probe batch in which every probe was unhealthy makes chooseAPI throw
\* the all-offline error and writes neither the cache nor the cursor, so a
\* cache that was empty is still empty.
C5_AllUnhealthyThrows ==
  [][\A p \in Procs :
       (pc[p] = "probing" /\ pc'[p] # "probing"
          /\ \A i \in 1..Len_APIS : results[p][i] = null) =>
          /\ ret'[p] = AllEndpointsUnreachable
          /\ lastHealthyAPI' = lastHealthyAPI
          /\ currentAPIIndex' = currentAPIIndex]_vars

\* a resolution failed and the cache is empty
C5_Witness ==
  \E p \in Procs :
    pc[p] = "resolved" /\ ret[p] = AllEndpointsUnreachable
      /\ lastHealthyAPI = null

\* C6: a failed first request invalidates the cache, advances the cursor and
\* starts a new probe batch; the retry request goes to the mirror that batch
\* resolved; a failed retry request ends the call with the request-level
\* error, which is not the all-offline error; the all-offline error arises
\* only from a batch in which every probe was unhealthy.
C6_RetryThenRequestError ==
  [][\A p \in Procs :
       /\ \A s \in Statuses, j \in BOOLEAN :
            (Response(p, s, j) /\ RequestFailed(s)) =>
               IF attempt[p] = 1
               THEN /\ lastHealthyAPI' = null
                    /\ currentAPIIndex' = (currentAPIIndex + 1) % Len_APIS
                    /\ pc'[p] = "probing" /\ nProbe'[p] = Len_APIS
                    /\ attempt'[p] = 2 /\ nReq'[p] = 1
               ELSE /\ pc'[p] = "failed" /\ nReq'[p] = nReq[p]
                    /\ err'[p] \in UpstreamRequestFailed
                    /\ err'[p] # AllEndpointsUnreachable
       /\ (pc[p] = "resolved" /\ pc'[p] = "fetching" /\ attempt[p] = 2) =>
               (base'[p] = ret[p] /\ nReq'[p] = nReq[p] + 1 /\ nReq'[p] <= 2)
       /\ (ret'[p] = AllEndpointsUnreachable /\ ret[p] # ret'[p]) =>
               (pc[p] = "probing" /\ \A i \in 1..Len_APIS : results[p][i] = null)
       /\ (err'[p] = AllEndpointsUnreachable /\ err[p] # err'[p]) =>
               ret[p] = AllEndpointsUnreachable]_vars

\* both requests of a call failed and the call ended with the request error
C6_Witness ==
  \E p \in Procs :
    /\ pc[p] = "failed" /\ attempt[p] = 2 /\ err[p] = "API error"
    /\ err[p] \in UpstreamRequestFailed /\ base[p] \in Mirrors

\* C7: every execution of the invalidation statements leaves the cache empty
\* and the cursor at (previous cursor + 1) modulo the number of mirrors.
C7_InvalidateRotates ==
  [][\A p \in Procs :
       nInval'[p] = nInval[p] + 1 =>
          /\ lastHealthyAPI' = null
          /\ currentAPIIndex' = (currentAPIIndex + 1) % Len_APIS]_vars

\* an invalidation has wrapped the cursor from the last index to 0
C7_Witness ==
  \E p \in Procs :
    /\ pc[p] = "probing" /\ attempt[p] = 2 /\ nInval[p] = 1 /\ nReq[p] = 1
    /\ start[p] = 0 /\ currentAPIIndex = 0 /\ lastHealthyAPI = null

\* C8: the cursor is always a valid index into the mirror list and the cached
\* endpoint is null or one of the configured mirrors.
C8_ValidCursorAndCache ==
  /\ currentAPIIndex \in 0..(Len_APIS - 1)
  /\ lastHealthyAPI \in Mirrors \cup {null}

\* the last mirror is cached after an invalidation, with another lookup in flight
C8_Witness ==
  \E p, q \in Procs :
    /\ p # q /\ nInval[p] = 1 /\ pc[q] = "probing"
    /\ lastHealthyAPI = PIPED_APIS[Len_APIS]
    /\ currentAPIIndex = Len_APIS - 1

\* C9: a probe batch that was issued before the batch that wrote the current
\* cache content does not change the cache when it completes.
C9_StaleBatchDoesNotOverwrite ==
  [][\A p \in Procs :
       (p \in stale /\ lastHealthyAPI # null /\ pc[p] = "probing"
          /\ pc'[p] # "probing") => lastHealthyAPI' = lastHealthyAPI]_vars

\* C10: once a mirror is cached, the cache keeps it until an invalidation
\* empties the cache; no step replaces it by another mirror.
C10_CachedUntilInvalidated ==
  [][(lastHealthyAPI # null) =>
       (lastHealthyAPI' = lastHealthyAPI
          \/ (lastHealthyAPI' = null
                /\ \E p \in Procs : nInval'[p] = nInval[p] + 1))]_vars

\* C11: every probe of an apiFetchJSON call goes to the fixed representative
\* path, which is not the data path of the call.
C11_ProbePathFixed ==
  \A p \in Procs :
    (pc[p] = "probing" /\ nProbe[p] > 0) =>
       (endpoint[p] = "/api/v1/trending"
          /\ endpoint[p] # "/api/v1/streams/" \o vid[p])

\* C12: with every probe settling except those of one mirror, every
\* resolution that probes ends, and every apiFetchJSON call ends.
C12_HangingProbeDoesNotBlock ==
  \A p \in Procs :
    /\ (pc[p] = "probing") ~> (pc[p] # "probing")
    /\ InCall(p) ~> ~InCall(p)

\* C16: once the lookup of the second link has rendered, the late completion
\* of the lookup of the first link, started before it and still in flight,
\* changes neither the metadata shown nor the wired actions nor the preview.
C16_SupersededLookupDoesNotRender ==
  [][\A p \in Procs :
       (pc[p] \in {"done", "failed"} /\ pc'[p] = "idle"
          /\ vid[p] = TextA.id /\ inputValue = TextB
          /\ titleShown = TextB.id /\ actionsWired = TextB.id) =>
       (titleShown' = titleShown /\ actionsWired' = actionsWired
          /\ previewHidden' = previewHidden)]_vars

\* mirror probed at position i of the batch of lookup p
ProbedAt(p, i) == PIPED_APIS[((start[p] + i - 1) % Len_APIS) + 1]

\* C17: a cache miss issues one probe per mirror, in rotation order from the
\* cursor; a probe is healthy exactly on a success status or 404; the mirror
\* returned and cached had a healthy probe in this batch.
C17_ProbeEveryMirrorOnce ==
  /\ [](\A p \in Procs : pc[p] = "probing" =>
          /\ Len(results[p]) = Len_APIS /\ nProbe[p] = Len_APIS
          /\ {ProbedAt(p, i) : i \in 1..Len_APIS} = Mirrors
          /\ ProbedAt(p, 1) = PIPED_APIS[start[p] + 1])
  /\ [][\A p \in Procs :
          /\ (pc[p] # "probing" /\ pc'[p] = "probing") =>
               /\ start'[p] = currentAPIIndex'
               /\ \A i \in 1..Len_APIS : results'[p][i] = "pending"
          /\ \A i \in 1..Len_APIS, s \in Statuses :
               Settle(p, i, s) =>
                 /\ results[p][i] = "pending"
                 /\ results'[p][i] =
                      (IF s \in 200..299 \/ s = 404
                       THEN ProbedAt(p, i) ELSE null)
                 /\ \A k \in 1..Len_APIS :
                      k # i => results'[p][k] = results[p][k]
          /\ (pc[p] = "probing" /\ pc'[p] # "probing") =>
               /\ \A i \in 1..Len_APIS : results[p][i] # "pending"
               /\ (\E i \in 1..Len_APIS : results[p][i] # null)
                     <=> ret'[p] \in Mirrors
               /\ ret'[p] \in Mirrors =>
                    /\ \E i \in 1..Len_APIS : results[p][i] = ret'[p]
                    /\ lastHealthyAPI' = ret'[p]]_vars

\* a retry batch that started past mirror 0 wrapped around and resolved it
C17_Witness ==
  \E p \in Procs :
    /\ pc[p] = "resolved" /\ attempt[p] = 2 /\ nProbe[p] = Len_APIS
    /\ ret[p] = PIPED_APIS[1] /\ lastHealthyAPI = PIPED_APIS[1]
    /\ currentAPIIndex = 0

C19_ResolutionFailureNotRetried ==
  [][\A p \in Procs :
       (pc[p] = "resolved" /\ attempt[p] = 1
          /\ ret[p] = AllEndpointsUnreachable /\ pc'[p] # "resolved") =>
       /\ pc'[p] = "failed" /\ err'[p] = AllEndpointsUnreachable
       /\ currentAPIIndex' = currentAPIIndex
       /\ nRes'[p] = nRes[p] /\ nInval'[p] = nInval[p]]_vars

\* C20: whenever the cache holds an endpoint, the cursor is its index in the
\* mirror list.
C20_CursorIndexesCache ==
  lastHealthyAPI # null =>
    /\ currentAPIIndex \in 0..(Len_APIS - 1)
    /\ PIPED_APIS[currentAPIIndex + 1] = lastHealthyAPI

\* the last mirror is cached while two lookups have requests in flight on
\* different mirrors
C20_Witness ==
  \E p, q \in Procs :
    /\ pc[p] = "fetching" /\ pc[q] = "fetching" /\ base[p] # base[q]
    /\ lastHealthyAPI = PIPED_APIS[Len_APIS]
    /\ currentAPIIndex = Len_APIS - 1

\* the value a quality or bitrate field counts for, missing counted as 0
FieldValue(x) ==
  CASE x = null -> 0 [] x = "0" -> 0 [] x = "128" -> 128 [] x = "256" -> 256
    [] x = "720p" -> 720 [] x = "1080" -> 1080
\* the descriptor's container hint, else its mime hint, names the mp4 container
IsMp4(d) ==
  IF d.container # null THEN d.container = "MP4" ELSE d.mimeType = "video/mp4"

\* C13: pickBestMp4 returns nothing for the empty list; when some descriptor's
\* hint contains mp4 in any case, the earliest of the matching descriptors of
\* maximum quality (missing counted as 0), whatever the quality of the
\* others; otherwise the first descriptor of the list.
C13_PickBestMp4 ==
  called = "pickBestMp4" =>
    LET M == {i \in 1..Len(streams) : IsMp4(streams[i])} IN
      IF Len(streams) = 0 THEN picked = NoStream
      ELSE IF M = {} THEN picked = streams[1]
      ELSE \E i \in M :
             /\ picked = streams[i]
             /\ \A j \in M :
                  /\ FieldValue(streams[j].quality)
                       <= FieldValue(streams[i].quality)
                  /\ FieldValue(streams[j].quality)
                       = FieldValue(streams[i].quality) => i <= j

\* a webm of higher quality first, then two matching descriptors of equal
\* quality, one by its upper-case container and one by its mime type
C13_Witness ==
  /\ called = "pickBestMp4" /\ Len(streams) = 3
  /\ streams[1].container = "webm" /\ streams[1].quality = "1080"
  /\ streams[2].container = "MP4" /\ streams[2].quality = "720p"
  /\ streams[3].container = null /\ streams[3].mimeType = "video/mp4"
  /\ streams[3].quality = "720p"
  /\ picked = streams[2]

\* C14: pickBestAudio returns nothing for the empty list and otherwise the
\* earliest descriptor of maximum bitrate (missing counted as 0), whatever
\* its container; the call leaves the list it was given as it was.
C14_PickBestAudio ==
  /\ [](called = "pickBestAudio" =>
          IF Len(streams) = 0 THEN picked = NoStream
          ELSE \E i \in 1..Len(streams) :
                 /\ picked = streams[i]
                 /\ \A j \in 1..Len(streams) :
                      /\ FieldValue(streams[j].bitrate)
                           <= FieldValue(streams[i].bitrate)
                      /\ FieldValue(streams[j].bitrate)
                           = FieldValue(streams[i].bitrate) => i <= j)
  /\ [][called' = "pickBestAudio" => streams' = streams]_vars

\* three descriptors without bitrate: the first is returned
C14_Witness ==
  /\ called = "pickBestAudio" /\ Len(streams) = 3
  /\ \A i \in 1..3 : streams[i].bitrate = null
  /\ streams[1].mimeType = "audio/webm" /\ streams[2].mimeType = "audio/mp4"
  /\ picked = streams[1]

\* C15: whenever the text contains a watch link or a short link with an
\* identifier of at least 6 characters, getVideoId returns that identifier,
\* also when the text does not parse as a URL.
C15_ScanFallback ==
  (called = "getVideoId" /\ MatchYT(rawText) # null) =>
     videoId = MatchYT(rawText)
====
